---- MODULE Spec2Model ----
(***************************************************************************)
(* Model of coilmq/frame.py: StompFrame, HeaderValue and the server frame  *)
(* classes ConnectedFrame, MessageFrame, ErrorFrame and ReceiptFrame.      *)
(*                                                                         *)
(* Python objects are modelled by a heap: `frames` holds the frame         *)
(* instances (a frame's identity is its index), `dicts` holds the dict     *)
(* objects (frame.headers is a reference PyDict(d) into it),               *)
(* `caller_dicts` the dicts the caller made itself and can pass on, `last` *)
(* records the most recent call, its arguments, and what it returned or    *)
(* raised.  Header names are sequences of tokens, the separators "-" and   *)
(* "_" being tokens of their own, so that str.replace is modelled by what  *)
(* it does to a name.                                                      *)
(***************************************************************************)
EXTENDS Integers, Sequences, FiniteSets, TLC

VARIABLES frames, dicts, caller_dicts, last

vars == <<frames, dicts, caller_dicts, last>>

----------------------------------------------------------------------------
(* Bounds                                                                  *)

MaxFrames == 2
MaxCmdFrames == 1
MaxDicts == 1

----------------------------------------------------------------------------
(* Python values                                                           *)

PyNone == [type |-> "NoneType", v |-> "None"]
PyStr(s) == [type |-> "str", v |-> s]
PyInt(n) == [type |-> "int", v |-> n]
PyDict(d) == [type |-> "dict", v |-> d]
PyHeaderValue(calc) == [type |-> "HeaderValue", v |-> calc]

\* `lambda: len(self.body)`: a function object closed over the frame `self`.
Lambda_first(self) == [type |-> "function", v |-> 1]
Lambda(self) == [type |-> "function", v |-> self]

\* Python truth value of a str or None (`if cmd:`).
Truthy(x) == x # PyNone /\ x # PyStr("")

callable_any(x) == TRUE
callable(x) == x.type = "function"

\* str(n) for a non-negative int: its decimal digits.
Digits == <<"0", "1", "2", "3", "4", "5", "6", "7", "8", "9">>
RECURSIVE IntToStr(_)
IntToStr(n) == IF n < 10 THEN Digits[n + 1]
               ELSE IntToStr(n \div 10) \o Digits[(n % 10) + 1]

\* str.replace(old, new) on a name, token by token.
replace(name, old, new) ==
    [i \in DOMAIN name |-> IF name[i] = old THEN new ELSE name[i]]

\* dict operations
EmptyDict == <<>>
dict_get(d, k) == IF k \in DOMAIN d THEN d[k] ELSE PyNone
dict_set(d, k, x) == [n \in (DOMAIN d) \cup {k} |-> IF n = k THEN x ELSE d[n]]
dict_del(d, k) == [n \in (DOMAIN d) \ {k} |-> d[n]]

----------------------------------------------------------------------------
(* Names and verbs                                                         *)

\* The verbs the cmd property setter of the superclass accepts.
VALID_COMMANDS == {"ABORT", "ACK", "BEGIN", "COMMIT", "CONNECT", "CONNECTED",
                   "DISCONNECT", "MESSAGE", "SEND", "SUBSCRIBE", "UNSUBSCRIBE",
                   "RECEIPT", "ERROR"}

n_body == <<"body">>
n_headers == <<"headers">>
n_cmd == <<"cmd">>
n_command == <<"command">>
n_session == <<"session">>
n_receipt == <<"receipt">>
n_message == <<"message">>
n_content_length == <<"content", "-", "length">>
n_message_id == <<"message", "-", "id">>
n_message_id_py == <<"message", "_", "id">>

----------------------------------------------------------------------------
(* HeaderValue                                                             *)

\* HeaderValue.__init__: raises ValueError for a non-callable, else keeps calc.
\* The calculator is not called here.
HeaderValue_init(calc) ==
    IF ~callable(calc)
    THEN [err |-> "ValueError", value |-> PyNone, called |-> FALSE]
    ELSE [err |-> "none", value |-> PyHeaderValue(calc), called |-> FALSE]

\* Calling the calculator `lambda: len(self.body)` on the heap fs.
Call(calc, fs) == PyInt(Len(fs[calc.v].body.v))

\* HeaderValue.__str__: str(self.calc())
HeaderValue_str(hv, fs) == PyStr(IntToStr(Call(hv.v, fs).v))

\* str(x) for a header value: a str is returned as it is.
Str(x, fs) == IF x.type = "HeaderValue" THEN HeaderValue_str(x, fs) ELSE x

----------------------------------------------------------------------------
(* StompFrame                                                              *)

\* `if body is None: body = ''`
DefaultBody_keep(body) == body
DefaultBody(body) == IF body = PyNone THEN PyStr("") ELSE body

\* The cmd property setter inherited from the superclass: it validates the
\* verb and fails on one that is not recognized.
setCmd(cmd) == IF cmd.v \in VALID_COMMANDS THEN "none" ELSE "InvalidCommandError"

\* `self.cmd = cmd`: an assignment through the validating property setter.
SetCmdAttr_raw(frame, cmd) == [err |-> "none", frame |-> [frame EXCEPT !.cmd = cmd]]
SetCmdAttr(frame, cmd) ==
    IF setCmd(cmd) = "none"
    THEN [err |-> "none", frame |-> [frame EXCEPT !.cmd = cmd]]
    ELSE [err |-> setCmd(cmd), frame |-> frame]

\* The instance before __init__ has assigned anything.
Blank(class) == [class |-> class, cmd |-> PyNone, body |-> PyNone, headers |-> PyNone]

\* StompFrame.__init__(self, cmd, headers, body) on the dict heap `heap`.
\* A raise in the setter leaves __init__ before body and headers are assigned.
StompFrame_init(class, cmd, headers, body, heap) ==
    LET body1 == DefaultBody(body)
        heap1 == IF headers = PyNone THEN Append(heap, EmptyDict) ELSE heap
        headers1 == IF headers = PyNone THEN PyDict(Len(heap1)) ELSE headers
        s == IF Truthy(cmd) THEN SetCmdAttr(Blank(class), cmd)
             ELSE [err |-> "none", frame |-> Blank(class)]
    IN IF s.err # "none"
       THEN [err |-> s.err, frame |-> Blank(class), dicts |-> heap]
       ELSE [err |-> "none",
             frame |-> [s.frame EXCEPT !.body = body1, !.headers = headers1],
             dicts |-> heap1]

\* StompFrame.__getattr__(self, name), called when normal lookup fails.
StompFrame_getattr(frame, name, heap) ==
    dict_get(heap[frame.headers.v], replace(name, "-", "_"))

\* getattr(frame, name): the attributes __init__ assigns are found by the
\* normal lookup; every other name goes to __getattr__.
getattr(frame, name, heap) ==
    IF name = n_body THEN frame.body
    ELSE IF name = n_headers THEN frame.headers
    ELSE IF name = n_cmd THEN frame.cmd
    ELSE StompFrame_getattr(frame, name, heap)

----------------------------------------------------------------------------
(* Server frames                                                           *)

\* ConnectedFrame.__init__(self, session)
ConnectedFrame_init_bare(session, heap) ==
    StompFrame_init("ConnectedFrame", PyStr("CONNECTED"), PyNone, PyNone, heap)
ConnectedFrame_init(session, heap) ==
    StompFrame_init("ConnectedFrame", PyStr("CONNECTED"),
                    PyDict(Len(heap) + 1), PyNone,
                    Append(heap, [n \in {n_session} |-> session]))

\* MessageFrame.__init__(self, body); `self` is the identity of the new frame.
MessageFrame_init_snapshot(body, self, heap) ==
    LET r == StompFrame_init("MessageFrame", PyStr("MESSAGE"), PyNone, body, heap)
    IN IF r.err # "none" THEN r
       ELSE [r EXCEPT !.dicts[r.frame.headers.v] =
                 dict_set(@, n_content_length, PyStr(IntToStr(Len(r.frame.body.v))))]
MessageFrame_init(body, self, heap) ==
    LET r == StompFrame_init("MessageFrame", PyStr("MESSAGE"), PyNone, body, heap)
    IN IF r.err # "none" THEN r
       ELSE [r EXCEPT !.dicts[r.frame.headers.v] =
                 dict_set(@, n_content_length, HeaderValue_init(Lambda(self)).value)]

\* ErrorFrame.__init__(self, message, body)
ErrorFrame_init(message, body, self, heap) ==
    LET r == StompFrame_init("ErrorFrame", PyStr("ERROR"), PyNone, body, heap)
    IN IF r.err # "none" THEN r
       ELSE [r EXCEPT !.dicts[r.frame.headers.v] =
                 dict_set(dict_set(@, n_message, message),
                          n_content_length, HeaderValue_init(Lambda(self)).value)]

\* ReceiptFrame.__init__(self, receipt)
ReceiptFrame_init(receipt, heap) ==
    StompFrame_init("ReceiptFrame", PyStr("RECEIPT"),
                    PyDict(Len(heap) + 1), PyNone,
                    Append(heap, [n \in {n_receipt} |-> receipt]))

----------------------------------------------------------------------------
(* State                                                                   *)

Call_record(op, frame, name, args, result, err, called) ==
    [op |-> op, frame |-> frame, name |-> name, args |-> args,
     result |-> result, err |-> err, called |-> called]

Init ==
    /\ frames = <<>>
    /\ dicts = <<>>
    /\ caller_dicts = {}
    /\ last = Call_record("none", 0, <<>>, <<>>, PyNone, "none", FALSE)

Frames == DOMAIN frames
headers_of(f) == dicts[frames[f].headers.v]

\* A constructor call returning r: the new frame exists only if nothing raised.
Construct(op, args, r) ==
    IF r.err # "none"
    THEN /\ last' = Call_record(op, 0, <<>>, args, PyNone, r.err, FALSE)
         /\ UNCHANGED <<frames, dicts, caller_dicts>>
    ELSE /\ frames' = Append(frames, r.frame)
         /\ dicts' = r.dicts
         /\ UNCHANGED caller_dicts
         /\ last' = Call_record(op, Len(frames) + 1, <<>>, args, PyNone, "none", FALSE)

----------------------------------------------------------------------------
(* Operations                                                              *)

\* StompFrame(cmd, headers, body)
StompFrame(cmd, headers, body) ==
    Construct("StompFrame", <<cmd, headers, body>>,
              StompFrame_init("StompFrame", cmd, headers, body, dicts))

\* ConnectedFrame(session)
ConnectedFrame(session) ==
    Construct("ConnectedFrame", <<session>>, ConnectedFrame_init(session, dicts))

\* MessageFrame(body)
MessageFrame(body) ==
    Construct("MessageFrame", <<body>>,
              MessageFrame_init(body, Len(frames) + 1, dicts))

\* ErrorFrame(message, body)
ErrorFrame(message, body) ==
    Construct("ErrorFrame", <<message, body>>,
              ErrorFrame_init(message, body, Len(frames) + 1, dicts))

\* ReceiptFrame(receipt)
ReceiptFrame(receipt) ==
    Construct("ReceiptFrame", <<receipt>>, ReceiptFrame_init(receipt, dicts))

\* frame.cmd = cmd
SetCmd(f, cmd) ==
    LET s == SetCmdAttr(frames[f], cmd)
    IN /\ frames' = [frames EXCEPT ![f] = s.frame]
       /\ last' = Call_record("setcmd", f, <<>>, <<cmd>>, PyNone, s.err, FALSE)
       /\ UNCHANGED <<dicts, caller_dicts>>

\* frame.body = body
SetBody(f, body) ==
    /\ frames' = [frames EXCEPT ![f].body = body]
    /\ last' = Call_record("setbody", f, <<>>, <<body>>, PyNone, "none", FALSE)
    /\ UNCHANGED <<dicts, caller_dicts>>

\* frame.headers[name] = value
SetHeader(f, name, value) ==
    /\ dicts' = [dicts EXCEPT ![frames[f].headers.v] = dict_set(@, name, value)]
    /\ last' = Call_record("setheader", f, name, <<value>>, PyNone, "none", FALSE)
    /\ UNCHANGED <<frames, caller_dicts>>

\* del frame.headers[name]
DelHeader(f, name) ==
    /\ name \in DOMAIN headers_of(f)
    /\ dicts' = [dicts EXCEPT ![frames[f].headers.v] = dict_del(@, name)]
    /\ last' = Call_record("delheader", f, name, <<>>, PyNone, "none", FALSE)
    /\ UNCHANGED <<frames, caller_dicts>>

\* getattr(frame, name), the attribute-style header lookup
GetAttr(f, name) ==
    /\ last' = Call_record("getattr", f, name, <<>>,
                           getattr(frames[f], name, dicts), "none", FALSE)
    /\ UNCHANGED <<frames, dicts, caller_dicts>>

\* str(frame.headers[name]), the resolution the codec performs when packing
ResolveHeader(f, name) ==
    /\ name \in DOMAIN headers_of(f)
    /\ last' = Call_record("str", f, name, <<>>,
                           Str(headers_of(f)[name], frames), "none",
                           headers_of(f)[name].type = "HeaderValue")
    /\ UNCHANGED <<frames, dicts, caller_dicts>>

\* HeaderValue(calc)
NewHeaderValue(calc) ==
    LET r == HeaderValue_init(calc)
    IN /\ last' = Call_record("HeaderValue", 0, <<>>, <<calc>>, r.value, r.err, r.called)
       /\ UNCHANGED <<frames, dicts, caller_dicts>>

\* h = {} in the caller
NewDict ==
    /\ dicts' = Append(dicts, EmptyDict)
    /\ caller_dicts' = caller_dicts \cup {Len(dicts) + 1}
    /\ last' = Call_record("dict", 0, <<>>, <<>>, PyDict(Len(dicts) + 1), "none", FALSE)
    /\ UNCHANGED frames

----------------------------------------------------------------------------
(* Inputs                                                                  *)

CmdArgs == {PyNone, PyStr(""), PyStr("BOGUS")} \cup {PyStr(c) : c \in VALID_COMMANDS}
CmdStrs == CmdArgs \ {PyNone}
BuildBodies == {PyNone, PyStr("12345"), PyStr("details")}
AssignedBodies == {PyStr(""), PyStr("1234567"), PyStr("0123456789")}
CalcArgs == {PyInt(42)} \cup {Lambda(f) : f \in Frames}
SetNames == {n_message_id, n_message_id_py}
SetValues == {PyStr("1"), PyStr("2")}
LookupNames == {n_body, n_headers, n_cmd, n_command, n_session,
                n_content_length, n_message_id, n_message_id_py}
ServerLookupNames == {n_body, n_session, n_content_length}
DictArgs == {PyNone} \cup {PyDict(d) : d \in caller_dicts}

----------------------------------------------------------------------------
(* Specifications                                                          *)

\* Direct construction and command assignment.
NextCmd ==
    \/ /\ Len(frames) < MaxCmdFrames
       /\ \E cmd \in CmdArgs, body \in {PyNone, PyStr("12345")} :
              StompFrame(cmd, PyNone, body)
    \/ \E f \in Frames, cmd \in CmdStrs : SetCmd(f, cmd)

SpecCmd == Init /\ [][NextCmd]_vars

\* The server frames, body assignment, and resolution of their headers.
NextBody ==
    \/ /\ Len(frames) < MaxFrames
       /\ ConnectedFrame(PyStr("abc123"))
    \/ /\ Len(frames) < MaxFrames
       /\ \E body \in BuildBodies : MessageFrame(body)
    \/ /\ Len(frames) < MaxFrames
       /\ \E body \in BuildBodies : ErrorFrame(PyStr("bad frame"), body)
    \/ /\ Len(frames) < MaxFrames
       /\ ReceiptFrame(PyStr("r1"))
    \/ \E f \in Frames, body \in AssignedBodies : SetBody(f, body)
    \/ \E f \in Frames : \E name \in DOMAIN headers_of(f) : ResolveHeader(f, name)
    \/ \E f \in Frames, name \in ServerLookupNames : GetAttr(f, name)
    \/ \E calc \in CalcArgs : NewHeaderValue(calc)

SpecBody == Init /\ [][NextBody]_vars

\* Header mappings: caller-supplied dicts, header mutation and lookup.
NextHeaders ==
    \/ /\ Cardinality(caller_dicts) < MaxDicts
       /\ NewDict
    \/ /\ Len(frames) < MaxFrames
       /\ \E h \in DictArgs : StompFrame(PyStr("SEND"), h, PyNone)
    \/ /\ Len(frames) < MaxFrames
       /\ ConnectedFrame(PyStr("abc123"))
    \/ /\ Len(frames) < MaxFrames
       /\ MessageFrame(PyStr("12345"))
    \/ \E f \in Frames, name \in SetNames, value \in SetValues : SetHeader(f, name, value)
    \/ \E f \in Frames : \E name \in DOMAIN headers_of(f) : DelHeader(f, name)
    \/ \E f \in Frames, name \in LookupNames : GetAttr(f, name)

SpecHeaders == Init /\ [][NextHeaders]_vars

----------------------------------------------------------------------------
(* Properties                                                              *)

ServerBodyClasses == {"MessageFrame", "ErrorFrame"}

\* What the 'content-length' header of frame f resolves to in this state.
ContentLengthOf(f) == Str(headers_of(f)[n_content_length], frames)

\* C1: every resolution of the 'content-length' header of a MessageFrame or
\* an ErrorFrame returns the decimal string of the length of the body the
\* frame holds at that moment, whatever body assignments and resolutions
\* came before.
C1_ResolvesCurrentLength ==
    (/\ last.op = "str"
     /\ last.name = n_content_length
     /\ frames[last.frame].class \in ServerBodyClasses)
    => last.result = PyStr(IntToStr(Len(frames[last.frame].body.v)))

\* A MessageFrame was built (never with this body), its body was assigned
\* '1234567', and the resolution returned '7'.
C1_Witness ==
    /\ last.op = "str"
    /\ last.name = n_content_length
    /\ frames[last.frame].class = "MessageFrame"
    /\ frames[last.frame].body = PyStr("1234567")
    /\ last.result = PyStr("7")

\* C2: constructing a StompFrame with a given command that is not a
\* recognized verb (the empty string included) raises the invalid-command
\* error and yields no frame.
C2_UnrecognizedCommandFails ==
    (/\ last.op = "StompFrame"
     /\ last.args[1] # PyNone
     /\ last.args[1].v \notin VALID_COMMANDS)
    => (last.err = "InvalidCommandError" /\ last.frame = 0)

\* C3: constructing a StompFrame with a recognized verb and neither headers
\* nor body succeeds; the frame has that command, an empty headers mapping
\* and an empty body.
C3_RecognizedCommandConstructs ==
    (/\ last.op = "StompFrame"
     /\ last.args[1].v \in VALID_COMMANDS
     /\ last.args[2] = PyNone
     /\ last.args[3] = PyNone)
    => /\ last.err = "none"
       /\ last.frame \in Frames
       /\ frames[last.frame].cmd = last.args[1]
       /\ frames[last.frame].body = PyStr("")
       /\ DOMAIN headers_of(last.frame) = {}

C3_Witness ==
    /\ last.op = "StompFrame"
    /\ last.args = <<PyStr("SUBSCRIBE"), PyNone, PyNone>>
    /\ last.frame \in Frames
    /\ frames[last.frame].cmd = PyStr("SUBSCRIBE")

\* C4: after any sequence of constructions and command assignments every
\* frame's command is unset or a recognized verb, and an assignment of an
\* unrecognized verb raises and leaves command, headers and body as they were.
C4_CommandStaysRecognized ==
    [][/\ \A f \in DOMAIN frames' :
              \/ frames'[f].cmd = PyNone
              \/ frames'[f].cmd.v \in VALID_COMMANDS
       /\ (last'.op = "setcmd" /\ last'.args[1].v \notin VALID_COMMANDS)
              => /\ last'.err = "InvalidCommandError"
                 /\ frames' = frames
                 /\ dicts' = dicts]_vars

\* An assignment of an unrecognized verb to a frame that holds SEND raised,
\* and the frame still holds SEND.
C4_Witness ==
    /\ last.op = "setcmd"
    /\ last.args[1] = PyStr("BOGUS")
    /\ last.err = "InvalidCommandError"
    /\ frames[last.frame].cmd = PyStr("SEND")

\* C5: the lookup of a header name that is not set on the frame returns
\* None, for any name, the frame's own field names and hyphenated names
\* included.
C5_MissingHeaderIsNone ==
    (/\ last.op = "getattr"
     /\ last.name \notin DOMAIN headers_of(last.frame))
    => last.result = PyNone

\* C6: the lookup of a header name that is set on the frame, hyphenated names
\* included, returns that header's value resolved to a string.
C6_PresentHeaderIsFound ==
    (/\ last.op = "getattr"
     /\ last.name \in DOMAIN headers_of(last.frame))
    => last.result = Str(headers_of(last.frame)[last.name], frames)

\* C7: right after a server frame constructor returns, the frame carries its
\* command and headers: CONNECTED has 'session' and an empty body, RECEIPT
\* has 'receipt' and an empty body, MESSAGE has the given body and a
\* 'content-length', ERROR has 'message', the given body (empty when omitted)
\* and a 'content-length' that resolves to the length of that body.
C7_BuildersSetHeaders ==
    LET f == last.frame
        given(b) == IF b = PyNone THEN PyStr("") ELSE b
    IN /\ last.op \in {"ConnectedFrame", "MessageFrame", "ErrorFrame", "ReceiptFrame"}
          => (last.err = "none" /\ f \in Frames)
       /\ last.op = "ConnectedFrame"
          => /\ frames[f].cmd = PyStr("CONNECTED")
             /\ n_session \in DOMAIN headers_of(f)
             /\ headers_of(f)[n_session] = last.args[1]
             /\ frames[f].body = PyStr("")
       /\ last.op = "ReceiptFrame"
          => /\ frames[f].cmd = PyStr("RECEIPT")
             /\ n_receipt \in DOMAIN headers_of(f)
             /\ headers_of(f)[n_receipt] = last.args[1]
             /\ frames[f].body = PyStr("")
       /\ last.op = "MessageFrame"
          => /\ frames[f].cmd = PyStr("MESSAGE")
             /\ frames[f].body = given(last.args[1])
             /\ n_content_length \in DOMAIN headers_of(f)
       /\ last.op = "ErrorFrame"
          => /\ frames[f].cmd = PyStr("ERROR")
             /\ n_message \in DOMAIN headers_of(f)
             /\ headers_of(f)[n_message] = last.args[1]
             /\ frames[f].body = given(last.args[2])
             /\ n_content_length \in DOMAIN headers_of(f)
             /\ ContentLengthOf(f) = PyStr(IntToStr(Len(given(last.args[2]).v)))
             /\ last.args[2] = PyStr("details") => ContentLengthOf(f) = PyStr("7")
             /\ last.args[2] = PyNone => ContentLengthOf(f) = PyStr("0")

\* ErrorFrame('bad frame', 'details') returned, after a ConnectedFrame.
C7_Witness ==
    /\ last.op = "ErrorFrame"
    /\ last.args = <<PyStr("bad frame"), PyStr("details")>>
    /\ last.frame = 2
    /\ frames[1].class = "ConnectedFrame"
    /\ headers_of(1)[n_session] = PyStr("abc123")
    /\ ContentLengthOf(2) = PyStr("7")

\* C8: HeaderValue(calc) raises ValueError and yields no HeaderValue when
\* calc is not callable (the int 42); for a callable it returns a HeaderValue
\* holding calc, and does not call it.
C8_HeaderValueInit ==
    last.op = "HeaderValue"
    => /\ last.args[1].type = "int"
          => (last.err = "ValueError" /\ last.result = PyNone)
       /\ last.args[1].type = "function"
          => /\ last.err = "none"
             /\ last.result = PyHeaderValue(last.args[1])
             /\ ~last.called

C8_Witness ==
    /\ last.op = "HeaderValue"
    /\ last.args = <<PyInt(42)>>
    /\ last.err = "ValueError"
    /\ last.result = PyNone

\* C9: a header added, changed or removed on one frame leaves the headers of
\* every other frame unchanged.
C9_NoSharedHeaders ==
    [][last'.op \in {"setheader", "delheader"}
       => \A g \in Frames \ {last'.frame} : headers_of(g)' = headers_of(g)]_vars

\* C10: resolving a header and looking a header up change nothing of any
\* frame, and assigning the body of one frame does not change what the
\* 'content-length' of another MessageFrame or ErrorFrame resolves to.
C10_ReadOnlyAndOwnBody ==
    [][/\ last'.op \in {"str", "getattr"}
          => (frames' = frames /\ dicts' = dicts)
       /\ last'.op = "setbody"
          => \A a \in Frames \ {last'.frame} :
                 frames[a].class \in ServerBodyClasses
                 => ContentLengthOf(a)' = ContentLengthOf(a)]_vars

\* The body of frame 1 was assigned while frame 2, a MessageFrame with a body
\* of another length, resolves 'content-length' to its own body's length.
C10_Witness ==
    /\ last.op = "setbody"
    /\ last.frame = 1
    /\ Len(frames) >= 2
    /\ frames[1].class \in ServerBodyClasses
    /\ frames[2].class = "MessageFrame"
    /\ frames[1].body = PyStr("0123456789")
    /\ frames[2].body = PyStr("12345")
    /\ ContentLengthOf(1) = PyStr("10")
    /\ ContentLengthOf(2) = PyStr("5")

====
